---- MODULE Spec2Model ----
(***************************************************************************)
(* Control plane: the gRPC deployment service (pkg/api), the Nomad client  *)
(* wrapper (pkg/nomad/nomad.go) and the job template compiler with its     *)
(* Traefik tag generator (pkg/nomad/job.go).                               *)
(*                                                                         *)
(* Conventions                                                             *)
(*  - A Go pointer or optional value is a sequence of length 0 (nil) or 1. *)
(*  - A Go map is a function over its key set; ranging over a map visits   *)
(*    the keys in an order the runtime picks, so every use of range takes  *)
(*    the visiting order as an explicit argument chosen by the caller.     *)
(*  - Strings are TLA+ strings, built with \o as fmt.Sprintf builds them.  *)
(*    A TLA+ string cannot hold a backquote, so the backquote of the       *)
(*    Traefik rule syntax is written as an apostrophe.                     *)
(*  - time.Duration values are kept in whole seconds.                      *)
(*  - The service keeps no state between calls besides the client handle;  *)
(*    op, arg, ret and calls describe the call being served, from the      *)
(*    moment its handler has run until its result is handed back (Done).   *)
(*  - Spec runs one call at a time with each handler as one step.  The     *)
(*    specification SpecInFlight serves calls concurrently: a handler      *)
(*    blocks in each orchestrator call, and inflight holds per slot the    *)
(*    parameters and locals of the invocation, the calls it has sent and   *)
(*    the replies it has got.                                              *)
(***************************************************************************)
EXTENDS Integers, Sequences, FiniteSets, TLC

VARIABLES
    orhClient,  \* ApplicationService.orhClient: "client" or "nil"
    op,         \* name of the operation that ran last
    arg,        \* its input
    ret,        \* its result
    calls,      \* the orchestrator calls it issued, in order
    inflight    \* the invocations being served concurrently, one per slot

vars == <<orhClient, op, arg, ret, calls, inflight>>

Nil == <<>>
Ptr(v) == <<v>>

(***************************************************************************)
(* Bounds of the model.                                                    *)
(***************************************************************************)
MaxMiddlewares == 2
MaxCustomLabels == 2
MaxAllocs == 2
MaxReplicas == 2
MaxInFlight == 2

(***************************************************************************)
(* String helpers.                                                         *)
(***************************************************************************)
HasPrefix(s, p) == Len(s) >= Len(p) /\ SubSeq(s, 1, Len(p)) = p

Contains(s, p) == \E i \in 1..(Len(s) - Len(p) + 1) : SubSeq(s, i, i + Len(p) - 1) = p

Range(f) == { f[i] : i \in DOMAIN f }

\* All orderings of a finite set, as sequences without repetition.
Orderings(S) == { f \in [1..Cardinality(S) -> S] : \A i, j \in DOMAIN f : i # j => f[i] # f[j] }

(***************************************************************************)
(* TraefikSpec.GenerateTraefikTags                                         *)
(***************************************************************************)
DisabledTagsWithFlag == <<"deployment", "traefik.enable=false">>

\* if !ts.Enable { return []string{"deployment"} }
DisabledTags == <<"deployment">>

EnabledTags == <<"deployment", "traefik.enable=true">>

HostRule(routerName, host) ==
    "traefik.http.routers." \o routerName \o ".rule=Host('" \o host \o "')"

Entrypoints(routerName, entrypoint) ==
    "traefik.http.routers." \o routerName \o ".entrypoints=" \o entrypoint

PathPrefixRuleForgotten(routerName, host, pathPrefix) == <<>>

\* if ts.PathPrefix != "" { append the combined rule under the same key }
PathPrefixRule(routerName, host, pathPrefix) ==
    IF pathPrefix # ""
    THEN << "traefik.http.routers." \o routerName \o ".rule="
            \o "Host('" \o host \o "') && PathPrefix('" \o pathPrefix \o "')" >>
    ELSE <<>>

RECURSIVE JoinFrom(_, _)
JoinFrom(ms, i) == IF i > Len(ms) THEN "" ELSE "," \o ms[i] \o JoinFrom(ms, i + 1)

MiddlewareTagsFirstOnly(routerName, ms) ==
    IF Len(ms) > 0
    THEN << "traefik.http.routers." \o routerName \o ".middlewares=" \o ms[1] >>
    ELSE <<>>

\* if len(ts.Middlewares) > 0 { join with commas, append one directive }
MiddlewareTags(routerName, ms) ==
    IF Len(ms) > 0
    THEN << "traefik.http.routers." \o routerName \o ".middlewares=" \o ms[1] \o JoinFrom(ms, 2) >>
    ELSE <<>>

DefaultEntrypointKept(entrypoint) == entrypoint

DefaultEntrypoint(entrypoint) == IF entrypoint = "" THEN "web" ELSE entrypoint

\* if ts.Host != "" { ... }
RouterTags(ts, serviceName) ==
    IF ts.Host # ""
    THEN << HostRule(serviceName, ts.Host),
            Entrypoints(serviceName, DefaultEntrypoint(ts.Entrypoint)) >>
         \o PathPrefixRule(serviceName, ts.Host, ts.PathPrefix)
         \o MiddlewareTags(serviceName, ts.Middlewares)
    ELSE <<>>

SecureGuardNoHost(ts) == ts.EnableSSL

\* if ts.EnableSSL && ts.Host != ""
SecureGuard(ts) == ts.EnableSSL /\ ts.Host # ""

TLSTagsBoth(sslRouterName, certResolver) ==
    << "traefik.http.routers." \o sslRouterName \o ".tls=true" >>
    \o (IF certResolver # ""
        THEN << "traefik.http.routers." \o sslRouterName \o ".tls.certresolver=" \o certResolver >>
        ELSE <<>>)

TLSTags(sslRouterName, certResolver) ==
    IF certResolver # ""
    THEN << "traefik.http.routers." \o sslRouterName \o ".tls.certresolver=" \o certResolver >>
    ELSE << "traefik.http.routers." \o sslRouterName \o ".tls=true" >>

SSLHostOf(ts) == IF ts.SSLHost = "" THEN ts.Host ELSE ts.SSLHost

SecureRouterTags(ts, serviceName) ==
    IF SecureGuard(ts)
    THEN LET sslRouterName == serviceName \o "-secure"
             sslHost == SSLHostOf(ts)
         IN  << HostRule(sslRouterName, sslHost),
                Entrypoints(sslRouterName, "websecure") >>
             \o PathPrefixRule(sslRouterName, sslHost, ts.PathPrefix)
             \o TLSTags(sslRouterName, ts.CertResolver)
             \o MiddlewareTags(sslRouterName, ts.Middlewares)
    ELSE <<>>

LoadBalancerTags(ts, serviceName, portLabel) ==
    << "traefik.http.services." \o serviceName
       \o ".loadbalancer.server.port=${NOMAD_PORT_" \o portLabel \o "}" >>
    \o (IF ts.HealthCheckPath # ""
        THEN << "traefik.http.services." \o serviceName
                \o ".loadbalancer.healthcheck.path=" \o ts.HealthCheckPath,
                "traefik.http.services." \o serviceName
                \o ".loadbalancer.healthcheck.interval="
                \o (IF ts.HealthCheckInterval = "" THEN "30s" ELSE ts.HealthCheckInterval) >>
        ELSE <<>>)

\* for key, value := range ts.CustomLabels: order is the order range visits the keys
CustomLabelTags(labels, order) ==
    [i \in 1..Len(order) |-> order[i] \o "=" \o labels[order[i]]]

GenerateTraefikTags(ts, serviceName, portLabel, order) ==
    IF ~ts.Enable
    THEN DisabledTags
    ELSE EnabledTags
         \o RouterTags(ts, serviceName)
         \o SecureRouterTags(ts, serviceName)
         \o LoadBalancerTags(ts, serviceName, portLabel)
         \o CustomLabelTags(ts.CustomLabels, order)

\* The zero value of TraefikSpec.
ZeroTraefikSpec ==
    [ Enable |-> FALSE, Host |-> "", Entrypoint |-> "", EnableSSL |-> FALSE, SSLHost |-> "",
      CertResolver |-> "", HealthCheckPath |-> "", HealthCheckInterval |-> "",
      PathPrefix |-> "", Middlewares |-> <<>>, CustomLabels |-> <<>> ]

(***************************************************************************)
(* JobTemplate.ToNomadJob and JobTemplate.buildTaskGroup                   *)
(***************************************************************************)
\* time.ParseDuration on the timeout strings of the model: the parsed value,
\* or Nil when parsing returns an error.
ParseDuration(s) ==
    CASE s = "5s" -> Ptr(5)
      [] s = "1m" -> Ptr(60)
      [] OTHER -> Nil

BuildResources(rs) ==
    [ CPU |-> rs.CPU, Cores |-> rs.Cores, MemoryMB |-> rs.MemoryMB, MemoryMaxMB |-> rs.MemoryMaxMB ]

\* networkMode := jt.NetworkMode; if networkMode == "" { networkMode = "host" }
ResolveNetworkMode(networkMode) == IF networkMode = "" THEN "host" ELSE networkMode

BuildPortBoth(networkMode, ports) ==
    [ Label |-> ports.Label, Value |-> ports.Value, To |-> ports.To ]

\* The nmd.Port appended to dynamicPorts; a field left out of the literal is 0.
BuildPort(networkMode, ports) ==
    IF networkMode = "bridge"
    THEN [ Label |-> ports.Label, Value |-> 0, To |-> ports.To ]
    ELSE [ Label |-> ports.Label, Value |-> ports.Value, To |-> 0 ]

BuildNetworks(jt) ==
    IF jt.Ports.Label # ""
    THEN LET networkMode == ResolveNetworkMode(jt.NetworkMode)
         IN  << [ Mode |-> networkMode,
                  ReservedPorts |-> <<>>,
                  DynamicPorts |-> << BuildPort(networkMode, jt.Ports) >> ] >>
    ELSE <<>>

BuildTask(jt) ==
    [ Name |-> jt.Name,
      Driver |-> "containerd-driver",
      Config |-> [ image |-> jt.Image ],
      Resources |-> BuildResources(jt.ResourcesSpec),
      Env |-> jt.Environment ]

BuildChecks(jt) ==
    IF jt.HealthCheck.Type # ""
    THEN LET parsed == ParseDuration(jt.HealthCheck.Timeout)
             timeout == IF parsed = Nil THEN 10 ELSE parsed[1]
         IN  << [ Type |-> jt.HealthCheck.Type,
                  Path |-> jt.HealthCheck.Path,
                  Interval |-> jt.HealthCheck.Interval,
                  Timeout |-> timeout,
                  PortLabel |-> IF jt.HealthCheck.Port # ""
                                THEN jt.HealthCheck.Port
                                ELSE jt.Ports.Label ] >>
    ELSE <<>>

BuildServicesAlways(jt, order) ==
    IF jt.Ports.Label # ""
    THEN << [ Name |-> jt.Name \o "-" \o jt.Ports.Label,
              PortLabel |-> jt.Ports.Label,
              Tags |-> GenerateTraefikTags(jt.Traefik, jt.Name, jt.Ports.Label, order),
              Checks |-> BuildChecks(jt) ] >>
    ELSE <<>>

BuildServices(jt, order) ==
    IF jt.Ports.Label # "" /\ ~jt.DisableConsul
    THEN << [ Name |-> jt.Name \o "-" \o jt.Ports.Label,
              PortLabel |-> jt.Ports.Label,
              Tags |-> GenerateTraefikTags(jt.Traefik, jt.Name, jt.Ports.Label, order),
              Checks |-> BuildChecks(jt) ] >>
    ELSE <<>>

buildTaskGroup(jt, order) ==
    << [ Name |-> Ptr(jt.Name \o "-group"),
         Count |-> Ptr(jt.Instances),
         Tasks |-> << BuildTask(jt) >>,
         Networks |-> BuildNetworks(jt),
         Services |-> BuildServices(jt, order) ] >>

ToNomadJobRegionAlways(jt, order) ==
    [ ID |-> Ptr(jt.Name),
      Name |-> Ptr(jt.Name),
      Type |-> Ptr("service"),
      Datacenters |-> <<"dc1">>,
      TaskGroups |-> buildTaskGroup(jt, order),
      Region |-> Ptr(jt.Region) ]

ToNomadJob(jt, order) ==
    [ ID |-> Ptr(jt.Name),
      Name |-> Ptr(jt.Name),
      Type |-> Ptr("service"),
      Datacenters |-> <<"dc1">>,
      TaskGroups |-> buildTaskGroup(jt, order),
      Region |-> IF jt.Region # "" THEN Ptr(jt.Region) ELSE Nil ]

\* The orders in which range may visit the custom labels while jt is compiled:
\* the generator runs only when a service is registered.
RangeOrders(jt) ==
    IF jt.Ports.Label # "" /\ ~jt.DisableConsul /\ jt.Traefik.Enable
    THEN Orderings(DOMAIN jt.Traefik.CustomLabels)
    ELSE { <<>> }

(***************************************************************************)
(* NomadClient: the orchestrator is a black box; the reply of each of its  *)
(* operations is an argument.  A reply is [err |-> Nil or Ptr(message)]    *)
(* together with the value the operation returns.                          *)
(***************************************************************************)
Register(job) == [ method |-> "Jobs.Register", job |-> job ]

Deregister(jobID, purge) == [ method |-> "Jobs.Deregister", jobID |-> jobID, purge |-> purge ]

Info(jobID) == [ method |-> "Jobs.Info", jobID |-> jobID ]

Allocations(jobID, allAllocs) ==
    [ method |-> "Jobs.Allocations", jobID |-> jobID, allAllocs |-> allAllocs ]

Self == [ method |-> "Agent.Self" ]

DeployJobRetry(jobTemplate, order, reply) ==
    LET job == ToNomadJob(jobTemplate, order)
    IN  [ calls |-> IF reply.err # Nil
                    THEN << Register(job), Register(job) >> ELSE << Register(job) >>,
          resp |-> IF reply.err # Nil THEN Nil ELSE Ptr([ EvalID |-> reply.EvalID ]),
          err |-> reply.err ]

\* DeployJob: (resp, err) and the calls made.
DeployJob(jobTemplate, order, reply) ==
    LET job == ToNomadJob(jobTemplate, order)
    IN  [ calls |-> << Register(job) >>,
          resp |-> IF reply.err # Nil THEN Nil ELSE Ptr([ EvalID |-> reply.EvalID ]),
          err |-> reply.err ]

DeleteJobNoPurge == FALSE

\* the purge argument of jobs.Deregister(jobID, true, nil)
DeleteJobPurge == TRUE

\* DeleteJob: err and the calls made.
DeleteJob(jobID, reply) ==
    [ calls |-> << Deregister(jobID, DeleteJobPurge) >>, err |-> reply.err ]

\* GetJobStatus: (job, allocations, err) and the calls made.
GetJobStatus(jobID, infoReply, allocReply) ==
    IF infoReply.err # Nil
    THEN [ calls |-> << Info(jobID) >>, job |-> Nil, allocations |-> <<>>, err |-> infoReply.err ]
    ELSE IF allocReply.err # Nil
    THEN [ calls |-> << Info(jobID), Allocations(jobID, FALSE) >>,
           job |-> Ptr(infoReply.job), allocations |-> <<>>, err |-> allocReply.err ]
    ELSE [ calls |-> << Info(jobID), Allocations(jobID, FALSE) >>,
           job |-> Ptr(infoReply.job), allocations |-> allocReply.allocations, err |-> Nil ]

ClientHealthCheck(reply) == [ calls |-> << Self >>, err |-> reply.err ]

(***************************************************************************)
(* ApplicationService                                                      *)
(***************************************************************************)
NETWORK_MODE_UNSPECIFIED == 0
NETWORK_MODE_HOST == 1
NETWORK_MODE_BRIDGE == 2

Return(resp) == [ kind |-> "return", resp |-> resp, err |-> Nil ]

\* A nil dereference: the handler does not return.
Panic == [ kind |-> "panic" ]

\* switch req.NetworkMode
NetworkModeOf(mode) ==
    CASE mode = NETWORK_MODE_BRIDGE -> "bridge"
      [] mode = NETWORK_MODE_HOST -> "host"
      [] OTHER -> "host"

CpuMultiplier == 10

\* int(req.Cpu * 10): req.Cpu is given in hundredths of a core, and the
\* conversion to int drops the fraction.
CpuUnits(cpuCenti) == (cpuCenti * CpuMultiplier) \div 100

\* The nomad.TraefikSpec copied from the request's proxy section.
TraefikSpecOf(traefik) ==
    IF traefik # Nil
    THEN LET t == traefik[1]
         IN  [ Enable |-> t.Enable, Host |-> t.Host, Entrypoint |-> t.Entrypoint,
               EnableSSL |-> t.EnableSsl, SSLHost |-> t.SslHost,
               CertResolver |-> t.CertResolver, HealthCheckPath |-> t.HealthCheckPath,
               HealthCheckInterval |-> t.HealthCheckInterval, PathPrefix |-> t.PathPrefix,
               Middlewares |-> t.Middlewares, CustomLabels |-> t.CustomLabels ]
    ELSE ZeroTraefikSpec

ZeroPorts == [ Label |-> "", Value |-> 0, To |-> 0 ]

DefaultPortsWeb == [ Label |-> "web", Value |-> 0, To |-> 80 ]

DefaultPorts == [ Label |-> "http", Value |-> 0, To |-> 80 ]

ZeroServiceCheck == [ Type |-> "", Path |-> "", Interval |-> 0, Timeout |-> "", Port |-> "" ]

\* The job template DeployApplication builds from the request.
JobTemplateOf(req) ==
    LET ports == ZeroPorts
    IN  [ Name |-> req.Name,
          Image |-> req.Image,
          Instances |-> req.Replicas,
          Region |-> req.Region,
          DisableConsul |-> FALSE,
          NetworkMode |-> NetworkModeOf(req.NetworkMode),
          ResourcesSpec |-> [ CPU |-> Ptr(CpuUnits(req.Cpu)), Cores |-> Nil,
                              MemoryMB |-> Ptr(req.Memory), MemoryMaxMB |-> Nil ],
          Environment |-> req.Labels,
          Traefik |-> TraefikSpecOf(req.Traefik),
          HealthCheck |-> ZeroServiceCheck,
          Ports |-> IF ports.Label = "" THEN DefaultPorts ELSE ports ]

DeployFailedAsError(err) == [ kind |-> "return", resp |-> Nil, err |-> Ptr(err) ]

\* if err != nil { return &pb.DeployResponse{Status: "FAILED", ...}, nil }
DeployFailed(err) ==
    Return([ DeploymentId |-> "", Status |-> "FAILED",
             Message |-> "Failed to deploy application: " \o err ])

DeploySubmitted(resp) ==
    Return([ DeploymentId |-> resp.EvalID, Status |-> "SUBMITTED",
             Message |-> "Application deployment submitted successfully" ])

DeployApplication(client, req, order, reply) ==
    IF client = "nil"
    THEN [ calls |-> <<>>, ret |-> Panic ]
    ELSE LET r == DeployJob(JobTemplateOf(req), order, reply)
         IN  [ calls |-> r.calls,
               ret |-> IF r.err # Nil THEN DeployFailed(r.err[1]) ELSE DeploySubmitted(r.resp[1]) ]

DeleteApplication(client, req, reply) ==
    IF client = "nil"
    THEN [ calls |-> <<>>, ret |-> Panic ]
    ELSE LET r == DeleteJob(req.DeploymentId, reply)
         IN  [ calls |-> r.calls,
               ret |-> IF r.err # Nil
                       THEN Return([ Success |-> FALSE,
                                     Message |-> "Failed to delete application: " \o r.err[1] ])
                       ELSE Return([ Success |-> TRUE,
                                     Message |-> "Application deleted successfully" ]) ]

\* taskStates: one entry per task state of the allocation, empty when there is none.
TaskStatesOf(alloc) ==
    IF alloc.TaskStates # Nil
    THEN [ taskName \in DOMAIN alloc.TaskStates[1] |-> alloc.TaskStates[1][taskName].State ]
    ELSE <<>>

AllocationStatusOfSwapped(alloc) ==
    [ AllocationId |-> alloc.ID, NodeId |-> alloc.NodeID, NodeName |-> alloc.NodeName,
      Status |-> alloc.DesiredStatus, DesiredStatus |-> alloc.ClientStatus,
      CreateTime |-> alloc.CreateTime, ModifyTime |-> alloc.ModifyTime,
      TaskStates |-> TaskStatesOf(alloc) ]

AllocationStatusOf(alloc) ==
    [ AllocationId |-> alloc.ID, NodeId |-> alloc.NodeID, NodeName |-> alloc.NodeName,
      Status |-> alloc.ClientStatus, DesiredStatus |-> alloc.DesiredStatus,
      CreateTime |-> alloc.CreateTime, ModifyTime |-> alloc.ModifyTime,
      TaskStates |-> TaskStatesOf(alloc) ]

IsRunningAnyCase(alloc) == alloc.ClientStatus \in {"running", "Running"}

\* if alloc.ClientStatus == "running"
IsRunning(alloc) == alloc.ClientStatus = "running"

\* runningInstances after the loop over the first n allocations.
RECURSIVE RunningInstances(_, _)
RunningInstances(allocations, n) ==
    IF n = 0 THEN 0
    ELSE RunningInstances(allocations, n - 1) + (IF IsRunning(allocations[n]) THEN 1 ELSE 0)

DesiredInstancesOfLast(job) ==
    IF Len(job.TaskGroups) > 0 THEN job.TaskGroups[Len(job.TaskGroups)].Count[1] ELSE 0

\* desiredInstances: 0 unless the job has a task group, then the count of the
\* first one (TaskGroups[0] is TaskGroups[1] here).
DesiredInstancesOf(job) ==
    IF Len(job.TaskGroups) > 0 THEN job.TaskGroups[1].Count[1] ELSE 0

\* The status report of a successful lookup; dereferencing a nil Count, Status
\* or Type panics.
StatusReport(req, job, allocations) ==
    IF Len(job.TaskGroups) > 0 /\ job.TaskGroups[1].Count = Nil
    THEN Panic
    ELSE IF job.Status = Nil \/ job.Type = Nil
    THEN Panic
    ELSE Return([ DeploymentId |-> req.DeploymentId,
                  JobStatus |-> job.Status[1],
                  JobType |-> job.Type[1],
                  DesiredInstances |-> DesiredInstancesOf(job),
                  RunningInstances |-> RunningInstances(allocations, Len(allocations)),
                  Allocations |-> [ i \in 1..Len(allocations) |-> AllocationStatusOf(allocations[i]) ],
                  Message |-> "Application status retrieved successfully" ])

StatusFailedAsError(req, err) ==
    [ kind |-> "return", resp |-> Nil, err |-> Ptr("Failed to get application status: " \o err) ]

\* The report of a failed lookup: only DeploymentId and Message are set, the
\* other fields keep their zero values.
StatusFailed(req, err) ==
    Return([ DeploymentId |-> req.DeploymentId, JobStatus |-> "",
             JobType |-> "", DesiredInstances |-> 0,
             RunningInstances |-> 0, Allocations |-> <<>>,
             Message |-> "Failed to get application status: " \o err ])

GetApplicationStatus(client, req, infoReply, allocReply) ==
    IF client = "nil"
    THEN [ calls |-> <<>>, ret |-> Panic ]
    ELSE LET r == GetJobStatus(req.DeploymentId, infoReply, allocReply)
         IN  [ calls |-> r.calls,
               ret |-> IF r.err # Nil
                       THEN StatusFailed(req, r.err[1])
                       ELSE StatusReport(req, r.job[1], r.allocations) ]

HealthCheckNoElse(client, reply, now) ==
    IF client # "nil"
    THEN LET r == ClientHealthCheck(reply)
         IN  [ calls |-> r.calls,
               ret |-> IF r.err # Nil
                       THEN Return([ Status |-> "NOT_SERVING",
                                     Message |-> "Nomad client unhealthy: " \o r.err[1],
                                     Timestamp |-> now ])
                       ELSE Return([ Status |-> "SERVING", Message |-> "Service is healthy",
                                     Timestamp |-> now ]) ]
    ELSE [ calls |-> <<>>,
           ret |-> Return([ Status |-> "SERVING", Message |-> "Service is healthy",
                            Timestamp |-> now ]) ]

HealthCheck(client, reply, now) ==
    IF client # "nil"
    THEN LET r == ClientHealthCheck(reply)
         IN  [ calls |-> r.calls,
               ret |-> IF r.err # Nil
                       THEN Return([ Status |-> "NOT_SERVING",
                                     Message |-> "Nomad client unhealthy: " \o r.err[1],
                                     Timestamp |-> now ])
                       ELSE Return([ Status |-> "SERVING", Message |-> "Service is healthy",
                                     Timestamp |-> now ]) ]
    ELSE [ calls |-> <<>>,
           ret |-> Return([ Status |-> "NOT_SERVING", Message |-> "Nomad client not initialized",
                            Timestamp |-> now ]) ]

(***************************************************************************)
(* Concurrent invocations.  The grpc server runs every call on a goroutine *)
(* of its own; a handler blocks in each orchestrator call until the reply  *)
(* arrives.  An invocation is                                              *)
(*   [ rpc, req, order, now : the handler, its request, the range order    *)
(*                            and the clock reading it works with,         *)
(*     ctx     : "live" or "canceled", the context of the inbound call,    *)
(*     sent    : the orchestrator calls issued, each with its context,     *)
(*     replies : the replies received,                                     *)
(*     ret     : Nil until the handler has returned ].                     *)
(***************************************************************************)
Slots == 1..MaxInFlight

\* The options every client method hands to the orchestrator API: nil.
CallOptions == Nil

\* The context an orchestrator call runs under: that of its options, and the
\* background context, which is never canceled, when it has no options.
ContextOf(q) == IF q = Nil THEN "background" ELSE q[1].ctx

\* Stands for a reply that has not arrived.
Pending == [ err |-> Ptr("pending") ]

\* The handler of invocation h, run on req with the replies that have arrived.
Run(client, h, req) ==
    LET reply(i) == IF i <= Len(h.replies) THEN h.replies[i] ELSE Pending
    IN  CASE h.rpc = "DeployApplication" -> DeployApplication(client, req, h.order, reply(1))
          [] h.rpc = "DeleteApplication" -> DeleteApplication(client, req, reply(1))
          [] h.rpc = "GetApplicationStatus" ->
                 GetApplicationStatus(client, req, reply(1), reply(2))
          [] h.rpc = "HealthCheck" -> HealthCheck(client, reply(1), h.now)

HandlerRequestShared(rpcs, s) ==
    LET same == { t \in Slots : rpcs[t] # Nil /\ rpcs[t][1].rpc = rpcs[s][1].rpc }
    IN  rpcs[CHOOSE t \in same : \A u \in same : t <= u][1].req

\* req is a parameter of the handler: every invocation reads its own.
HandlerRequest(rpcs, s) == rpcs[s][1].req

\* The invocation once its handler has run as far as it can on req: blocked in
\* its next orchestrator call, or returned.
Advance(client, h, req) ==
    LET r == Run(client, h, req)
    IN  IF Len(r.calls) > Len(h.replies)
        THEN [ h EXCEPT !.sent = Append(@, [ call |-> r.calls[Len(h.replies) + 1],
                                             ctx |-> ContextOf(CallOptions) ]) ]
        ELSE [ h EXCEPT !.ret = Ptr(r.ret) ]

\* Is the invocation blocked in an orchestrator call?
Blocked(h) == h.ret = Nil /\ Len(h.sent) > Len(h.replies)

(***************************************************************************)
(* Inputs of the tag generator.                                            *)
(***************************************************************************)
MiddlewareNames == {"auth", "gzip"}

MiddlewareLists == UNION { [1..n -> MiddlewareNames] : n \in 0..MaxMiddlewares }

\* Custom labels are opaque passthrough directives; their keys lie outside the
\* traefik.http.routers namespace the generator itself writes.
CustomKeyList == <<"team", "traefik.docker.network", "tier", "zone">>

CustomKeys == { CustomKeyList[i] : i \in 1..MaxCustomLabels }

CustomLabelMaps == UNION { [K -> {"x"}] : K \in SUBSET CustomKeys }

TraefikSpecs ==
    [ Enable : BOOLEAN, Host : {"", "web.local"}, Entrypoint : {"", "internal"},
      EnableSSL : BOOLEAN, SSLHost : {"", "tls.local"}, CertResolver : {"", "le"},
      HealthCheckPath : {"", "/health"}, HealthCheckInterval : {"", "10s"},
      PathPrefix : {"", "/api"}, Middlewares : MiddlewareLists,
      CustomLabels : CustomLabelMaps ]

ServiceNames == {"web", "api"}

\* The service name of the direct calls of the tag generator.
TagServiceNames == {"web"}

(***************************************************************************)
(* Inputs of the compiler.                                                 *)
(***************************************************************************)
\* Proxy specs of the templates: off (the zero value), or on for a host with up
\* to two custom labels.
TemplateCustomLabelMaps ==
    UNION { [K -> {"x"}] : K \in { L \in SUBSET CustomKeys : Cardinality(L) <= 2 } }

TemplateTraefikSpecs ==
    { ZeroTraefikSpec } \cup
    { [ ZeroTraefikSpec EXCEPT !.Enable = TRUE, !.Host = "web.local", !.CustomLabels = m ] :
        m \in TemplateCustomLabelMaps }

PortSpecs == { ZeroPorts, DefaultPorts, [ Label |-> "admin", Value |-> 8080, To |-> 9090 ] }

ResourceSpecs ==
    { [ CPU |-> c, Cores |-> k, MemoryMB |-> m, MemoryMaxMB |-> k ] :
        c \in {Nil, Ptr(5)}, m \in {Nil, Ptr(512)}, k \in {Nil} } \cup
    { [ CPU |-> Ptr(5), Cores |-> Ptr(2), MemoryMB |-> Ptr(512), MemoryMaxMB |-> Ptr(1024) ] }

ServiceChecks ==
    { ZeroServiceCheck,
      [ Type |-> "http", Path |-> "/health", Interval |-> 30, Timeout |-> "5s", Port |-> "" ],
      [ Type |-> "http", Path |-> "/", Interval |-> 10, Timeout |-> "soon", Port |-> "admin" ] }

EnvironmentMaps == { <<>>, [ env |-> "production" ] }

NetworkModeStrings == {"", "host", "bridge", "overlay"}

JobTemplates ==
    [ Name : ServiceNames, Image : {"nginx:latest"}, Instances : 1..MaxReplicas,
      Region : {"", "global"}, Ports : PortSpecs, Environment : EnvironmentMaps,
      ResourcesSpec : ResourceSpecs, HealthCheck : ServiceChecks,
      Traefik : TemplateTraefikSpecs, DisableConsul : BOOLEAN,
      NetworkMode : NetworkModeStrings ]

(***************************************************************************)
(* Inputs of the service and replies of the orchestrator.                  *)
(***************************************************************************)
\* The proxy sections of the deploy requests: those of the templates and one
\* that names its entrypoint.
RequestTraefikSpecs ==
    TemplateTraefikSpecs \cup
    { [ ZeroTraefikSpec EXCEPT !.Enable = TRUE, !.Host = "web.local", !.Entrypoint = "internal" ] }

\* pb.TraefikConfig values of the deploy requests.
TraefikConfigs ==
    { [ Enable |-> ts.Enable, Host |-> ts.Host, Entrypoint |-> ts.Entrypoint,
        EnableSsl |-> ts.EnableSSL, SslHost |-> ts.SSLHost, CertResolver |-> ts.CertResolver,
        HealthCheckPath |-> ts.HealthCheckPath, HealthCheckInterval |-> ts.HealthCheckInterval,
        PathPrefix |-> ts.PathPrefix, Middlewares |-> ts.Middlewares,
        CustomLabels |-> ts.CustomLabels ] : ts \in RequestTraefikSpecs }

\* The enum is open: a client can send a number that names no mode.
NetworkModes == { NETWORK_MODE_UNSPECIFIED, NETWORK_MODE_HOST, NETWORK_MODE_BRIDGE, 7 }

\* req.Cpu in hundredths of a core: 0.05, 0.1, 0.18, 0.25, 0.5 and 1 core.
CpuRequests == {5, 10, 18, 25, 50, 100}

DeployRequests ==
    [ Name : ServiceNames, Image : {"nginx:latest"}, Replicas : 1..MaxReplicas,
      Cpu : CpuRequests, Memory : {128, 512}, Region : {"", "global"},
      NetworkMode : NetworkModes, Labels : EnvironmentMaps,
      Traefik : {Nil} \cup { Ptr(t) : t \in TraefikConfigs } ]

DeploymentIds == {"web", "ghost"}

OrchestratorErrors == {"Unexpected response code: 500", "job not found"}

ErrorReplies == { [ err |-> Ptr(e) ] : e \in OrchestratorErrors }

RegisterReplies == ErrorReplies \cup { [ err |-> Nil, EvalID |-> "eval-7f3a" ] }

DeregisterReplies == ErrorReplies \cup { [ err |-> Nil ] }

\* Jobs as the orchestrator reports them.
OrchestratorJobs ==
    [ Status : {Nil, Ptr("running")}, Type : {Nil, Ptr("service")},
      TaskGroups : { <<>>, << [ Count |-> Nil ] >>, << [ Count |-> Ptr(2) ] >>,
                     << [ Count |-> Ptr(1) ], [ Count |-> Ptr(3) ] >> } ]

InfoReplies == ErrorReplies \cup { [ err |-> Nil, job |-> j ] : j \in OrchestratorJobs }

AllocShapes ==
    [ ClientStatus : {"running", "Running", "pending"},
      TaskStates : { Nil, Ptr([ web |-> [ State |-> "running" ] ]) } ]

\* The i-th allocation stub of a list.
AllocStub(i, shape) ==
    [ ID |-> "alloc-" \o ToString(i), NodeID |-> "node-" \o ToString(i),
      NodeName |-> "worker-" \o ToString(i), ClientStatus |-> shape.ClientStatus,
      DesiredStatus |-> "run", CreateTime |-> 100 + i, ModifyTime |-> 200 + i,
      TaskStates |-> shape.TaskStates ]

AllocLists ==
    UNION { { [ i \in 1..n |-> AllocStub(i, shapes[i]) ] : shapes \in [1..n -> AllocShapes] } :
            n \in 0..MaxAllocs }

AllocationsReplies == ErrorReplies \cup { [ err |-> Nil, allocations |-> a ] : a \in AllocLists }

SelfReplies == ErrorReplies \cup { [ err |-> Nil ] }

\* Requests and replies of the concurrent invocations.
InFlightDeployRequests ==
    { [ Name |-> "web", Image |-> "nginx:latest", Replicas |-> 1, Cpu |-> 50,
        Memory |-> 128, Region |-> "", NetworkMode |-> NETWORK_MODE_BRIDGE,
        Labels |-> <<>>, Traefik |-> Nil ] } \cup
    { [ Name |-> "api", Image |-> "nginx:latest", Replicas |-> 2, Cpu |-> 50,
        Memory |-> 128, Region |-> "", NetworkMode |-> NETWORK_MODE_HOST,
        Labels |-> <<>>, Traefik |-> Ptr(t) ] :
        t \in { c \in TraefikConfigs :
                  DOMAIN c.CustomLabels = {"team", "traefik.docker.network"} } }

InFlightDeploymentIds == {"web"}

InFlightErrorReplies == { [ err |-> Ptr("job not found") ] }

InFlightInfoReplies ==
    InFlightErrorReplies \cup
    { [ err |-> Nil, job |-> [ Status |-> Ptr("running"), Type |-> Ptr("service"),
                               TaskGroups |-> << [ Count |-> Ptr(2) ] >> ] ] }

InFlightAllocationsReplies ==
    InFlightErrorReplies \cup
    { [ err |-> Nil,
        allocations |-> << AllocStub(1, [ ClientStatus |-> "running", TaskStates |-> Nil ]) >> ] }

\* The replies the orchestrator may give to a call.
RepliesTo(call) ==
    CASE call.method = "Jobs.Register" ->
             InFlightErrorReplies \cup { [ err |-> Nil, EvalID |-> "eval-7f3a" ] }
      [] call.method = "Jobs.Info" -> InFlightInfoReplies
      [] call.method = "Jobs.Allocations" -> InFlightAllocationsReplies
      [] OTHER -> InFlightErrorReplies \cup { [ err |-> Nil ] }

Timestamps == { 1762246800 }

(***************************************************************************)
(* Operations.                                                             *)
(***************************************************************************)
\* main: NewNomadClient returns a client or the process exits, and the service
\* is built with that client.
Init ==
    /\ orhClient = "client"
    /\ op = "idle"
    /\ arg = <<>>
    /\ ret = <<>>
    /\ calls = <<>>
    /\ inflight = [ s \in 1..MaxInFlight |-> Nil ]

\* A direct call of the tag generator.
CallGenerateTraefikTags ==
    /\ op = "idle"
    /\ \E ts \in TraefikSpecs, serviceName \in TagServiceNames :
       \E order \in Orderings(DOMAIN ts.CustomLabels) :
        /\ op' = "GenerateTraefikTags"
        /\ arg' = [ ts |-> ts, serviceName |-> serviceName, portLabel |-> "http" ]
        /\ ret' = GenerateTraefikTags(ts, serviceName, "http", order)
        /\ calls' = <<>>
        /\ UNCHANGED <<orhClient, inflight>>

\* A direct compilation of a job template.
CallToNomadJob ==
    /\ op = "idle"
    /\ \E jt \in JobTemplates :
       \E order \in RangeOrders(jt) :
        /\ op' = "ToNomadJob"
        /\ arg' = jt
        /\ ret' = ToNomadJob(jt, order)
        /\ calls' = <<>>
        /\ UNCHANGED <<orhClient, inflight>>

\* The same template compiled a second time; ret keeps both documents.
CallToNomadJobAgain ==
    /\ op = "ToNomadJob"
    /\ \E order \in RangeOrders(arg) :
        /\ op' = "ToNomadJobAgain"
        /\ ret' = [ first |-> ret, second |-> ToNomadJob(arg, order) ]
        /\ UNCHANGED <<orhClient, arg, calls, inflight>>

HandleDeployApplication ==
    /\ op = "idle"
    /\ \E req \in DeployRequests, reply \in RegisterReplies :
       \E order \in RangeOrders(JobTemplateOf(req)) :
       LET r == DeployApplication(orhClient, req, order, reply)
       IN  /\ op' = "DeployApplication"
           /\ arg' = [ req |-> req, reply |-> reply ]
           /\ ret' = r.ret
           /\ calls' = r.calls
           /\ UNCHANGED <<orhClient, inflight>>

HandleDeleteApplication ==
    /\ op = "idle"
    /\ \E id \in DeploymentIds, reply \in DeregisterReplies :
       LET req == [ DeploymentId |-> id ]
           r == DeleteApplication(orhClient, req, reply)
       IN  /\ op' = "DeleteApplication"
           /\ arg' = [ req |-> req, reply |-> reply ]
           /\ ret' = r.ret
           /\ calls' = r.calls
           /\ UNCHANGED <<orhClient, inflight>>

HandleGetApplicationStatus ==
    /\ op = "idle"
    /\ \E id \in DeploymentIds, infoReply \in InfoReplies, allocReply \in AllocationsReplies :
       LET req == [ DeploymentId |-> id ]
           r == GetApplicationStatus(orhClient, req, infoReply, allocReply)
       IN  /\ op' = "GetApplicationStatus"
           /\ arg' = [ req |-> req, infoReply |-> infoReply, allocReply |-> allocReply ]
           /\ ret' = r.ret
           /\ calls' = r.calls
           /\ UNCHANGED <<orhClient, inflight>>

HandleHealthCheck ==
    /\ op = "idle"
    /\ \E reply \in SelfReplies, now \in Timestamps :
       LET r == HealthCheck(orhClient, reply, now)
       IN  /\ op' = "HealthCheck"
           /\ arg' = [ reply |-> reply ]
           /\ ret' = r.ret
           /\ calls' = r.calls
           /\ UNCHANGED <<orhClient, inflight>>

\* The result has been handed back; the request-scoped values are dropped.
Done ==
    /\ op # "idle"
    /\ op' = "idle"
    /\ arg' = <<>>
    /\ ret' = <<>>
    /\ calls' = <<>>
    /\ UNCHANGED <<orhClient, inflight>>

Next ==
    \/ CallGenerateTraefikTags
    \/ CallToNomadJob
    \/ CallToNomadJobAgain
    \/ HandleDeployApplication
    \/ HandleDeleteApplication
    \/ HandleGetApplicationStatus
    \/ HandleHealthCheck
    \/ Done

Spec == Init /\ [][Next]_vars

\* NewApplicationService keeps whatever handle it is given, a nil one included.
InitAnyHandle ==
    /\ orhClient \in {"client", "nil"}
    /\ op = "idle"
    /\ arg = <<>>
    /\ ret = <<>>
    /\ calls = <<>>
    /\ inflight = [ s \in 1..MaxInFlight |-> Nil ]

SpecAnyHandle == InitAnyHandle /\ [][Next]_vars

(***************************************************************************)
(* Concurrent service: the steps of the invocations in flight.             *)
(***************************************************************************)
\* The server hands a call to its handler, which runs up to its first
\* orchestrator call.
Accepted(s, rpc, req, order, now) ==
    LET h == [ rpc |-> rpc, req |-> req, order |-> order, now |-> now, ctx |-> "live",
               sent |-> <<>>, replies |-> <<>>, ret |-> Nil ]
        started == [ inflight EXCEPT ![s] = Ptr(h) ]
    IN  /\ inflight[s] = Nil
        /\ inflight' = [ inflight EXCEPT
                            ![s] = Ptr(Advance(orhClient, h, HandlerRequest(started, s))) ]

AcceptDeployApplication ==
    /\ \E s \in Slots, req \in InFlightDeployRequests, now \in Timestamps :
       \E order \in RangeOrders(JobTemplateOf(req)) :
          Accepted(s, "DeployApplication", req, order, now)
    /\ UNCHANGED <<orhClient, op, arg, ret, calls>>

AcceptDeleteApplication ==
    /\ \E s \in Slots, id \in InFlightDeploymentIds, now \in Timestamps :
          Accepted(s, "DeleteApplication", [ DeploymentId |-> id ], <<>>, now)
    /\ UNCHANGED <<orhClient, op, arg, ret, calls>>

AcceptGetApplicationStatus ==
    /\ \E s \in Slots, id \in InFlightDeploymentIds, now \in Timestamps :
          Accepted(s, "GetApplicationStatus", [ DeploymentId |-> id ], <<>>, now)
    /\ UNCHANGED <<orhClient, op, arg, ret, calls>>

AcceptHealthCheck ==
    /\ \E s \in Slots, now \in Timestamps :
          Accepted(s, "HealthCheck", <<>>, <<>>, now)
    /\ UNCHANGED <<orhClient, op, arg, ret, calls>>

\* The caller cancels the inbound call, or its deadline expires, while the
\* handler has not returned: the context of the invocation is canceled.
CancelInbound ==
    /\ \E s \in Slots :
        /\ inflight[s] # Nil
        /\ inflight[s][1].ctx = "live" /\ inflight[s][1].ret = Nil
        /\ inflight' = [ inflight EXCEPT ![s] = Ptr([ inflight[s][1] EXCEPT !.ctx = "canceled" ]) ]
    /\ UNCHANGED <<orhClient, op, arg, ret, calls>>

\* The orchestrator answers the call an invocation is blocked in; the handler
\* runs on to its next call or to its return.
OrchestratorReplies ==
    /\ \E s \in Slots :
        /\ inflight[s] # Nil
        /\ Blocked(inflight[s][1])
        /\ LET h == inflight[s][1]
           IN  \E reply \in RepliesTo(h.sent[Len(h.sent)].call) :
                 inflight' = [ inflight EXCEPT
                     ![s] = Ptr(Advance(orhClient, [ h EXCEPT !.replies = Append(@, reply) ],
                                        HandlerRequest(inflight, s))) ]
    /\ UNCHANGED <<orhClient, op, arg, ret, calls>>

\* The response of a returned handler goes back to the caller.
ReturnResponse ==
    /\ \E s \in Slots :
        /\ inflight[s] # Nil
        /\ inflight[s][1].ret # Nil
        /\ inflight' = [ inflight EXCEPT ![s] = Nil ]
    /\ UNCHANGED <<orhClient, op, arg, ret, calls>>

NextInFlight ==
    \/ AcceptDeployApplication
    \/ AcceptDeleteApplication
    \/ AcceptGetApplicationStatus
    \/ AcceptHealthCheck
    \/ CancelInbound
    \/ OrchestratorReplies
    \/ ReturnResponse

SpecInFlight == Init /\ [][NextInFlight]_vars

(***************************************************************************)
(* Properties.                                                             *)
(***************************************************************************)
\* A directive is key=value; no key the generator writes holds an "=".
HasKey(tag, key) == HasPrefix(tag, key \o "=")

\* The positions of the directives of a tag list that carry a key.
PositionsOf(tags, key) == { i \in 1..Len(tags) : HasKey(tags[i], key) }

\* The directive in effect for a key: the last one emitted under it.
InEffect(tags, key) ==
    LET at == PositionsOf(tags, key)
    IN  tags[CHOOSE i \in at : \A j \in at : j <= i]

SecureRouterPrefix(serviceName) == "traefik.http.routers." \o serviceName \o "-secure."

TagsCalled == op = "GenerateTraefikTags"

\* C1: a TraefikSpec with Enable=false yields exactly the one directive
\* "deployment", whatever its other fields hold.
C1_DisabledYieldsOneDirective ==
    (TagsCalled /\ ~arg.ts.Enable) => ret = <<"deployment">>

C1_Witness ==
    /\ TagsCalled /\ ~arg.ts.Enable
    /\ arg.ts.Host # "" /\ arg.ts.EnableSSL /\ arg.ts.PathPrefix # ""
    /\ arg.ts.Middlewares # <<>> /\ arg.ts.HealthCheckPath # ""
    /\ Cardinality(DOMAIN arg.ts.CustomLabels) >= 2
    /\ Len(ret) = 1

C4_CompiledTwiceIdentical ==
    op = "ToNomadJobAgain" => ret.first = ret.second

\* The job DeployApplication handed to the orchestrator.
SubmittedJob == calls[1].job

Deployed == op = "DeployApplication" /\ ret.kind = "return" /\ Len(calls) = 1

\* C5: the network block of every deployed job holds exactly one port; in
\* bridge mode it carries the container port 80 and no host value, in host or
\* unspecified mode the host value 0 and no container port.
C5_PortShape ==
    Deployed =>
        LET networks == SubmittedJob.TaskGroups[1].Networks
        IN  /\ Len(networks) = 1
            /\ Len(networks[1].DynamicPorts) = 1 /\ Len(networks[1].ReservedPorts) = 0
            /\ LET port == networks[1].DynamicPorts[1]
               IN  /\ arg.req.NetworkMode = NETWORK_MODE_BRIDGE =>
                          port.To = 80 /\ port.Value = 0
                   /\ arg.req.NetworkMode \in {NETWORK_MODE_HOST, NETWORK_MODE_UNSPECIFIED} =>
                          port.Value = 0 /\ port.To = 0

C5_Witness ==
    /\ Deployed /\ arg.req.NetworkMode = NETWORK_MODE_BRIDGE
    /\ SubmittedJob.TaskGroups[1].Networks[1].DynamicPorts[1].To = 80

\* C6 (as claimed): every network mode other than an explicit "bridge" -- an
\* unset, unspecified or unknown enum value of a request, an empty or malformed
\* mode string of a JobTemplate -- compiles to the mode "host".
C6_ModeResolvesToHost ==
    /\ (Deployed /\ arg.req.NetworkMode # NETWORK_MODE_BRIDGE) =>
           SubmittedJob.TaskGroups[1].Networks[1].Mode = "host"
    /\ (op = "ToNomadJob" /\ arg.Ports.Label # "" /\ arg.NetworkMode # "bridge") =>
           ret.TaskGroups[1].Networks[1].Mode = "host"

\* C7 (as claimed): the CPU units of a deployed job are round(cores x 10), an
\* integer nearest to ten times the cores (a tie may round either way), and
\* the memory is the request's memory in MB.  req.Cpu is in hundredths of a
\* core, so distances are in hundredths of a CPU unit.
C7_CpuRoundedMemoryKept ==
    Deployed =>
        LET resources == SubmittedJob.TaskGroups[1].Tasks[1].Resources
            units == resources.CPU[1]
            exact == arg.req.Cpu * 10
        IN  /\ resources.CPU # Nil
            /\ units * 100 - exact <= 50 /\ exact - units * 100 <= 50
            /\ resources.MemoryMB = Ptr(arg.req.Memory)

\* C8: DeployApplication returns a response and a nil error; after a failed
\* submit the response is FAILED with an empty id and a message that embeds the
\* error, after a successful one SUBMITTED with the evaluation id as its id.
C8_DeployResponse ==
    op = "DeployApplication" =>
        /\ ret.kind = "return" /\ ret.err = Nil
        /\ Len(calls) = 1 /\ calls[1].method = "Jobs.Register"
        /\ arg.reply.err # Nil =>
              /\ ret.resp.Status = "FAILED" /\ ret.resp.DeploymentId = ""
              /\ Contains(ret.resp.Message, arg.reply.err[1])
        /\ arg.reply.err = Nil =>
              /\ ret.resp.Status = "SUBMITTED" /\ ret.resp.DeploymentId = arg.reply.EvalID

C8_Witness ==
    /\ op = "DeployApplication" /\ arg.reply.err # Nil
    /\ ret.kind = "return" /\ ret.err = Nil /\ ret.resp.Status = "FAILED"

\* C9: DeleteApplication deregisters the given id with purge and returns a nil
\* error; the response is success=false with the orchestrator's error in its
\* message when the orchestrator reports one, success=true otherwise.
C9_DeleteResponse ==
    op = "DeleteApplication" =>
        /\ calls = << [ method |-> "Jobs.Deregister", jobID |-> arg.req.DeploymentId,
                        purge |-> TRUE ] >>
        /\ ret.kind = "return" /\ ret.err = Nil
        /\ arg.reply.err # Nil =>
              ~ret.resp.Success /\ Contains(ret.resp.Message, arg.reply.err[1])
        /\ arg.reply.err = Nil => ret.resp.Success

C9_Witness ==
    /\ op = "DeleteApplication" /\ arg.req.DeploymentId = "ghost"
    /\ arg.reply.err = Ptr("job not found")
    /\ ret.kind = "return" /\ ~ret.resp.Success

StatusReported ==
    /\ op = "GetApplicationStatus" /\ ret.kind = "return"
    /\ arg.infoReply.err = Nil /\ arg.allocReply.err = Nil

\* C10: in a successful status report runningInstances is the number of
\* allocations whose client status is exactly "running"; the desired count
\* does not bound it.
C10_RunningCount ==
    StatusReported =>
        LET allocations == arg.allocReply.allocations
        IN  ret.resp.RunningInstances =
                Cardinality({ i \in 1..Len(allocations) : allocations[i].ClientStatus = "running" })

C10_Witness ==
    /\ StatusReported
    /\ \E i \in 1..Len(arg.allocReply.allocations) :
          arg.allocReply.allocations[i].ClientStatus = "Running"
    /\ ret.resp.RunningInstances = 1
    /\ ret.resp.DesiredInstances = 0

\* C11: in every successful status report desiredInstances is the count of the
\* job's first task group; for a job without task groups it is 0, and such a
\* lookup never fails on the task-group index: it returns its report unless
\* the job lacks a status or a type.
C11_DesiredFromFirstGroup ==
    LET job == arg.infoReply.job
    IN  /\ StatusReported =>
              /\ Len(job.TaskGroups) > 0 =>
                     ret.resp.DesiredInstances = job.TaskGroups[1].Count[1]
              /\ Len(job.TaskGroups) = 0 => ret.resp.DesiredInstances = 0
        /\ ( /\ op = "GetApplicationStatus"
             /\ arg.infoReply.err = Nil /\ arg.allocReply.err = Nil
             /\ Len(job.TaskGroups) = 0 /\ job.Status # Nil /\ job.Type # Nil ) =>
              ret.kind = "return"

C11_Witness ==
    /\ StatusReported
    /\ Len(arg.infoReply.job.TaskGroups) = 2
    /\ arg.infoReply.job.TaskGroups[1].Count = Ptr(1)
    /\ arg.infoReply.job.TaskGroups[2].Count = Ptr(3)
    /\ ret.resp.DesiredInstances = 1

LookupFailed ==
    /\ op = "GetApplicationStatus"
    /\ arg.infoReply.err # Nil \/ arg.allocReply.err # Nil

\* The error GetJobStatus hands back: that of the info call, or with a
\* successful info call that of the allocations call.
LookupError ==
    IF arg.infoReply.err # Nil THEN arg.infoReply.err[1] ELSE arg.allocReply.err[1]

\* C12: when the info call fails, or it succeeds and the allocations call
\* fails, GetApplicationStatus returns a nil error and a report that holds the
\* requested deployment id and the lookup error in its message; job status and
\* type are empty, both counts 0 and the allocation list empty.
C12_LookupFailureReport ==
    LookupFailed =>
        /\ ret.kind = "return" /\ ret.err = Nil
        /\ ret.resp.DeploymentId = arg.req.DeploymentId
        /\ Contains(ret.resp.Message, LookupError)
        /\ ret.resp.JobStatus = "" /\ ret.resp.JobType = ""
        /\ ret.resp.DesiredInstances = 0 /\ ret.resp.RunningInstances = 0
        /\ ret.resp.Allocations = <<>>

C12_Witness ==
    /\ op = "GetApplicationStatus"
    /\ arg.infoReply.err = Nil /\ arg.allocReply.err = Ptr("job not found")
    /\ arg.infoReply.job.Status = Ptr("running")
    /\ Len(arg.infoReply.job.TaskGroups) > 0
    /\ ret.kind = "return" /\ ret.resp.JobStatus = "" /\ ret.resp.DesiredInstances = 0

\* C13: HealthCheck always returns a response and a nil error; the status is
\* SERVING exactly when the handle is present and the self-identification call
\* succeeds, and otherwise NOT_SERVING with a message that tells why: the
\* handle is not initialized, or the error of the call.
C13_HealthStatus ==
    op = "HealthCheck" =>
        /\ ret.kind = "return" /\ ret.err = Nil
        /\ ret.resp.Status \in {"SERVING", "NOT_SERVING"}
        /\ ret.resp.Status = "SERVING" <=> (orhClient # "nil" /\ arg.reply.err = Nil)
        /\ orhClient = "nil" =>
              /\ Contains(ret.resp.Message, "not initialized")
              /\ calls = <<>>
        /\ (orhClient # "nil" /\ arg.reply.err # Nil) =>
              Contains(ret.resp.Message, arg.reply.err[1])

C13_Witness ==
    /\ op = "HealthCheck" /\ orhClient = "nil" /\ arg.reply.err = Nil
    /\ ret.kind = "return" /\ ret.resp.Status = "NOT_SERVING"

\* C15: every job DeployApplication submits comes from a template whose port
\* descriptor is label "http", host value 0, container port 80, and carries
\* exactly one service registration, named "<name>-http" on the port label
\* "http"; without a proxy section in the request its tags are exactly
\* <<"deployment">>.
C15_DefaultPortOneService ==
    Deployed =>
        LET group == SubmittedJob.TaskGroups[1]
        IN  /\ JobTemplateOf(arg.req).Ports = [ Label |-> "http", Value |-> 0, To |-> 80 ]
            /\ group.Networks[1].DynamicPorts[1].Label = "http"
            /\ Len(group.Services) = 1
            /\ group.Services[1].Name = arg.req.Name \o "-http"
            /\ group.Services[1].PortLabel = "http"
            /\ arg.req.Traefik = Nil => group.Services[1].Tags = <<"deployment">>

C15_Witness ==
    /\ Deployed /\ arg.req.Traefik = Nil /\ arg.req.Name = "web"
    /\ Len(SubmittedJob.TaskGroups[1].Services) = 1
    /\ SubmittedJob.TaskGroups[1].Services[1].Name = "web-http"
    /\ SubmittedJob.TaskGroups[1].Services[1].Tags = <<"deployment">>

ProxiedDeploy ==
    /\ Deployed /\ arg.req.Traefik # Nil
    /\ arg.req.Traefik[1].Enable /\ arg.req.Traefik[1].Host # ""
    /\ arg.req.Traefik[1].PathPrefix = ""

\* C16: a deploy request whose proxy section is enabled with a host H and no
\* path prefix yields service tags that include traefik.enable=true, the rule
\* Host('H') of the router named after the job, that router's entrypoint (the
\* configured one, "web" when none is configured) and the load-balancer port
\* directive ${NOMAD_PORT_http}.
C16_ProxiedDeployTags ==
    ProxiedDeploy =>
        LET t == arg.req.Traefik[1]
            name == arg.req.Name
            tags == Range(SubmittedJob.TaskGroups[1].Services[1].Tags)
        IN  /\ "traefik.enable=true" \in tags
            /\ ("traefik.http.routers." \o name \o ".rule=Host('" \o t.Host \o "')") \in tags
            /\ ("traefik.http.routers." \o name \o ".entrypoints="
                   \o (IF t.Entrypoint = "" THEN "web" ELSE t.Entrypoint)) \in tags
            /\ ("traefik.http.services." \o name
                   \o ".loadbalancer.server.port=${NOMAD_PORT_http}") \in tags

C16_Witness ==
    /\ ProxiedDeploy /\ arg.req.Name = "api" /\ arg.req.Traefik[1].Entrypoint = ""
    /\ "traefik.http.routers.api.entrypoints=web"
           \in Range(SubmittedJob.TaskGroups[1].Services[1].Tags)

\* The orchestrator calls of the operation that went to a method.
CallsTo(method) == { i \in 1..Len(calls) : calls[i].method = method }

\* C17: no operation repeats an orchestrator call, whether it failed or not:
\* DeployApplication makes exactly one Register call, DeleteApplication
\* exactly one Deregister call, GetApplicationStatus one Info call followed,
\* only when that succeeded, by one Allocations call.
C17_NoRetries ==
    /\ op = "DeployApplication" =>
          Len(calls) = 1 /\ calls[1].method = "Jobs.Register"
    /\ op = "DeleteApplication" =>
          Len(calls) = 1 /\ calls[1].method = "Jobs.Deregister"
    /\ op = "GetApplicationStatus" =>
          /\ Cardinality(CallsTo("Jobs.Info")) = 1 /\ calls[1].method = "Jobs.Info"
          /\ Cardinality(CallsTo("Jobs.Allocations")) <= 1
          /\ Len(calls) = 1 + Cardinality(CallsTo("Jobs.Allocations"))
          /\ CallsTo("Jobs.Allocations") # {} <=> arg.infoReply.err = Nil

C17_Witness ==
    /\ op = "DeployApplication" /\ arg.reply.err = Ptr("Unexpected response code: 500")
    /\ Len(calls) = 1 /\ ret.kind = "return" /\ ret.resp.Status = "FAILED"

\* C19: the job compiled from a JobTemplate has the template's name as id and
\* as name, the type "service" and exactly one task group, "<name>-group",
\* whose count is the template's instance count and whose only task has the
\* template's image and environment; the region is set, to the template's
\* region, if and only if that is non-empty.
C19_CompiledJobShape ==
    op = "ToNomadJob" =>
        /\ ret.ID = Ptr(arg.Name) /\ ret.Name = Ptr(arg.Name)
        /\ ret.Type = Ptr("service")
        /\ Len(ret.TaskGroups) = 1
        /\ ret.TaskGroups[1].Name = Ptr(arg.Name \o "-group")
        /\ ret.TaskGroups[1].Count = Ptr(arg.Instances)
        /\ Len(ret.TaskGroups[1].Tasks) = 1
        /\ ret.TaskGroups[1].Tasks[1].Config.image = arg.Image
        /\ ret.TaskGroups[1].Tasks[1].Env = arg.Environment
        /\ ret.Region # Nil <=> arg.Region # ""
        /\ arg.Region # "" => ret.Region = Ptr(arg.Region)

C19_Witness ==
    /\ op = "ToNomadJob" /\ arg.Region = "" /\ arg.Instances = 2 /\ arg.Name = "api"
    /\ ret.Region = Nil /\ ret.TaskGroups[1].Name = Ptr("api-group")
    /\ ret.TaskGroups[1].Count = Ptr(2)

SecureRouterEmitted ==
    /\ TagsCalled
    /\ \E i \in 1..Len(ret) : HasPrefix(ret[i], SecureRouterPrefix(arg.serviceName))

C14_CancellationReachesCall ==
    \A s \in Slots :
        ( /\ inflight[s] # Nil
          /\ inflight[s][1].rpc \in {"DeployApplication", "DeleteApplication",
                                     "GetApplicationStatus"}
          /\ inflight[s][1].ctx = "canceled"
          /\ Blocked(inflight[s][1]) ) =>
            inflight[s][1].sent[Len(inflight[s][1].sent)].ctx = "inbound"

RECURSIVE CommaJoined(_, _)
CommaJoined(ms, n) ==
    IF n = 1 THEN ms[1] ELSE CommaJoined(ms, n - 1) \o "," \o ms[n]

MiddlewareDirectives == { i \in 1..Len(ret) : Contains(ret[i], ".middlewares=") }

C22_ServiceAndNetworkPresence ==
    op = "ToNomadJob" =>
        LET group == ret.TaskGroups[1]
            label == arg.Ports.Label
        IN  /\ group.Services # <<>> <=> (label # "" /\ ~arg.DisableConsul)
            /\ group.Services # <<>> =>
                  /\ Len(group.Services) = 1
                  /\ group.Services[1].Name = group.Tasks[1].Name \o "-" \o label
                  /\ \E order \in Orderings(DOMAIN arg.Traefik.CustomLabels) :
                        group.Services[1].Tags
                          = GenerateTraefikTags(arg.Traefik, arg.Name, label, order)
            /\ group.Networks # <<>> <=> label # ""

C22_Witness ==
    /\ op = "ToNomadJob" /\ arg.DisableConsul /\ arg.Ports.Label = "admin"
    /\ arg.Traefik.Enable
    /\ ret.TaskGroups[1].Services = <<>>
    /\ Len(ret.TaskGroups[1].Networks) = 1

LookupSucceeded ==
    /\ op = "GetApplicationStatus"
    /\ arg.infoReply.err = Nil /\ arg.allocReply.err = Nil

\* C23 (as claimed): after a successful lookup GetApplicationStatus always
\* returns a status report, also for a job whose status, type or first task
\* group's count is nil; the absent fields are reported as "" and 0.
C23_NeverRaises ==
    LookupSucceeded =>
        LET job == arg.infoReply.job
        IN  /\ ret.kind = "return" /\ ret.err = Nil
            /\ job.Status = Nil => ret.resp.JobStatus = ""
            /\ job.Type = Nil => ret.resp.JobType = ""
            /\ (Len(job.TaskGroups) > 0 /\ job.TaskGroups[1].Count = Nil) =>
                  ret.resp.DesiredInstances = 0

\* C24: a successful status report holds one allocation summary per
\* allocation the orchestrator returned, in the same order, with that
\* allocation's id, node id, node name, client status, desired status and
\* timestamps; its task-state map has one entry per task state of the
\* allocation and is the empty map when the allocation has no task states.
C24_AllocationSummaries ==
    StatusReported =>
        LET allocations == arg.allocReply.allocations
            summaries == ret.resp.Allocations
        IN  /\ Len(summaries) = Len(allocations)
            /\ \A i \in 1..Len(allocations) :
                  LET a == allocations[i]
                      sum == summaries[i]
                  IN  /\ sum.AllocationId = a.ID /\ sum.NodeId = a.NodeID
                      /\ sum.NodeName = a.NodeName
                      /\ sum.Status = a.ClientStatus /\ sum.DesiredStatus = a.DesiredStatus
                      /\ sum.CreateTime = a.CreateTime /\ sum.ModifyTime = a.ModifyTime
                      /\ a.TaskStates = Nil => DOMAIN sum.TaskStates = {}
                      /\ a.TaskStates # Nil =>
                            /\ DOMAIN sum.TaskStates = DOMAIN a.TaskStates[1]
                            /\ \A t \in DOMAIN sum.TaskStates :
                                  sum.TaskStates[t] = a.TaskStates[1][t].State

C24_Witness ==
    /\ StatusReported /\ Len(arg.allocReply.allocations) = 2
    /\ arg.allocReply.allocations[1].TaskStates = Nil
    /\ arg.allocReply.allocations[2].TaskStates # Nil
    /\ Len(ret.resp.Allocations) = 2
    /\ ret.resp.Allocations[1].AllocationId = "alloc-1"
    /\ DOMAIN ret.resp.Allocations[1].TaskStates = {}
    /\ ret.resp.Allocations[2].AllocationId = "alloc-2"
    /\ ret.resp.Allocations[2].TaskStates.web = "running"

====
